---------------------------- MODULE Spec2Model ----------------------------
(***************************************************************************)
(* Restricted Hartree-Fock for HeH+ (src/HF.py): primitive Gaussian        *)
(* integrals, STO-nG contraction, assembly of H, S, X and the two-electron *)
(* tensor V, the SCF loop and the closed-form 2x2 diagonaliser.             *)
(*                                                                         *)
(* Numbers.  The program computes in IEEE doubles.  Here a real x is held  *)
(* as the integer x * Scale (six decimals), and every floating-point       *)
(* operation is carried out on that grid, rounding toward zero: Mul, Div,  *)
(* Sqrt, Exp, AtanDiv, Sin and Cos below are the grid versions of *, /,    *)
(* sqrt, exp, atan, sin and cos.  The table constants of the program have  *)
(* six decimals and are exact on the grid.  Properties that compare two    *)
(* reals for equality are therefore stated up to Tol, except where both    *)
(* sides are computed by the same grid operations.                         *)
(***************************************************************************)
EXTENDS Integers, Sequences, FiniteSets, TLC

Scale == 10^6
Limb == 10^3

Abs(a) == IF a < 0 THEN -a ELSE a
Sgn(a) == IF a < 0 THEN -1 ELSE 1

\* floor(a * b / Scale) for a, b >= 0, by three-digit limbs (no 32-bit overflow)
MulAbs(a, b) ==
    LET ah == a \div Limb
        al == a % Limb
        bh == b \div Limb
        bl == b % Limb
        x1 == ah * bl
        x2 == al * bh
        x3 == al * bl
    IN  ah * bh + (x1 \div Limb) + (x2 \div Limb)
          + (((x1 % Limb) + (x2 % Limb) + (x3 \div Limb)) \div Limb)

\* a * b
Mul(a, b) == Sgn(a) * Sgn(b) * MulAbs(Abs(a), Abs(b))

RECURSIVE DivDigits(_, _, _, _)
DivDigits(q, r, b, n) ==
    IF n = 0 THEN q
    ELSE DivDigits(q * 10 + ((r * 10) \div b), (r * 10) % b, b, n - 1)

\* floor(a * Scale / b) for a >= 0, b > 0, by long division; a divisor too large
\* for the remainders to be multiplied by ten is first cut by one digit
DivAbs(a, b) ==
    IF b >= 2 * 10^8
    THEN DivDigits((a \div 10) \div (b \div 10), (a \div 10) % (b \div 10), b \div 10, 6)
    ELSE DivDigits(a \div b, a % b, b, 6)

\* a / b
Div(a, b) == Sgn(a) * Sgn(b) * DivAbs(Abs(a), Abs(b))

\* 0.5 * a
Half(a) == Sgn(a) * (Abs(a) \div 2)

RECURSIVE SqrtNewton(_, _)
SqrtNewton(a, x) ==
    LET y == (x + DivAbs(a, x)) \div 2
    IN  IF y >= x THEN x ELSE SqrtNewton(a, y)

\* sqrt(a): the largest y with y * y <= a * Scale
Sqrt(a) ==
    IF a = 0 THEN 0
    ELSE LET x0 == IF a > Scale THEN a ELSE Scale
         IN  SqrtNewton(a, IF x0 > 46341 * Limb THEN 46341 * Limb ELSE x0)

Pi == 3141593

\* atan(y) for 0 <= y <= 0.2, by its series
AtanSeries(y) ==
    LET y2 == Mul(y, y)
        h4 == (Scale \div 7) - Mul(y2, Scale \div 9)
        h3 == (Scale \div 5) - Mul(y2, h4)
        h2 == (Scale \div 3) - Mul(y2, h3)
        h1 == Scale - Mul(y2, h2)
    IN  Mul(y, h1)

\* tan(t / 2) from x = tan(t)
AtanHalve(x) == Div(x, Scale + Sqrt(Scale + Mul(x, x)))

\* atan(x) for 0 <= x <= 1
AtanUnit(x) == 4 * AtanSeries(AtanHalve(AtanHalve(x)))

\* math.atan(num / den), den # 0; the quotient itself may exceed the grid
AtanDiv(num, den) ==
    LET s == Sgn(num) * Sgn(den)
        n == Abs(num)
        d == Abs(den)
    IN  IF n <= d THEN s * AtanUnit(DivAbs(n, d))
        ELSE s * ((Pi \div 2) - AtanUnit(DivAbs(d, n)))

\* math.sin(x), |x| <= pi/2
Sin(x) ==
    LET x2 == Mul(x, x)
        h6 == Scale - (x2 \div 156)
        h5 == Scale - (Mul(x2, h6) \div 110)
        h4 == Scale - (Mul(x2, h5) \div 72)
        h3 == Scale - (Mul(x2, h4) \div 42)
        h2 == Scale - (Mul(x2, h3) \div 20)
        h1 == Scale - (Mul(x2, h2) \div 6)
    IN  Mul(x, h1)

\* math.cos(x), |x| <= pi/2
Cos(x) ==
    LET x2 == Mul(x, x)
        h6 == Scale - (x2 \div 132)
        h5 == Scale - (Mul(x2, h6) \div 90)
        h4 == Scale - (Mul(x2, h5) \div 56)
        h3 == Scale - (Mul(x2, h4) \div 30)
        h2 == Scale - (Mul(x2, h3) \div 12)
    IN  Scale - (Mul(x2, h2) \div 2)

EInv == 367879        \* exp(-1)

RECURSIVE PowInt(_, _)
\* np.power(x, n) for a natural n
PowInt(x, n) == IF n = 0 THEN Scale ELSE Mul(PowInt(x, n - 1), x)

RECURSIVE ExpSeries(_, _, _)
\* the series of exp(-f), 0 <= f < 1, from its term k inward
ExpSeries(f, k, h) == IF k = 0 THEN h ELSE ExpSeries(f, k - 1, Scale - (Mul(f, h) \div k))

\* exp(-y) for y >= 0
ExpNeg(y) ==
    IF y \div Scale >= 14 THEN 0
    ELSE Mul(PowInt(EInv, y \div Scale), ExpSeries(y % Scale, 12, Scale))

\* np.exp(x)
Exp(x) == IF x <= 0 THEN ExpNeg(-x) ELSE Div(Scale, ExpNeg(x))

\* x ** 1.5, x ** 0.75
Pow15(x) == Mul(x, Sqrt(x))
Pow075(x) == Mul(Sqrt(x), Sqrt(Sqrt(x)))

\* np.pi ** 2.5
Pi25 == Mul(Mul(Pi, Pi), Sqrt(Pi))

(***************************************************************************)
(* erf works on a grid of nine decimals, the precision of its coefficients: *)
(* T, its powers, the polynomial and the result are multiples of 1 / Nano.  *)
(***************************************************************************)
Nano == 10^9

\* floor(a * b / Nano) for a, b >= 0, by three-digit limbs
MulNano(a, b) ==
    LET a2 == a \div 10^6
        a1 == (a \div Limb) % Limb
        a0 == a % Limb
        b2 == b \div 10^6
        b1 == (b \div Limb) % Limb
        b0 == b % Limb
    IN  a2 * b2 * Limb + a2 * b1 + a1 * b2
          + ((a2 * b0 + a1 * b1 + a0 * b2
              + ((a1 * b0 + a0 * b1 + ((a0 * b0) \div Limb)) \div Limb)) \div Limb)

MulNanoSigned(a, b) == Sgn(a) * Sgn(b) * MulNano(Abs(a), Abs(b))

ErfP == 327591        \* P = 0.3275911 on the grid of Scale
ErfA == <<254829592, -284496736, 1421413741, -1453152027, 1061405429>>

\* T = 1.0 / (1 + P * t), in units of 1 / Nano
ErfT(t) ==
    LET d == Scale + Mul(ErfP, t)
    IN  DivDigits(Nano \div d, Nano % d, d, 6)

RECURSIVE ErfPolynomial(_, _, _, _)
\* the loop over range(5): Tp is T ** i on entry
ErfPolynomial(T, i, Tp, acc) ==
    IF i = 5 THEN acc
    ELSE ErfPolynomial(T, i + 1, MulNano(Tp, T),
                       acc + MulNanoSigned(ErfA[i + 1], MulNano(Tp, T)))

\* a plausible slip: the complementary function, without the leading "1.0 -"
erfComplement(t) ==
    MulNanoSigned(ErfPolynomial(ErfT(t), 0, Nano, 0), Limb * Exp(-Mul(t, t)))

\* erf(t), t on the grid of Scale, the result in units of 1 / Nano
erf(t) ==
    Nano - MulNanoSigned(ErfPolynomial(ErfT(t), 0, Nano, 0), Limb * Exp(-Mul(t, t)))

\* F0(t); (np.pi / t) ** 0.5 is taken as sqrt(pi) / sqrt(t), since pi / t leaves
\* the grid for small t
F0(t) ==
    IF t < 1            \* t < 1e-6
    THEN Scale - (t \div 3)
    ELSE Mul(Mul(Scale \div 2, Div(Sqrt(Pi), Sqrt(t))), erf(Sqrt(t)) \div Limb)

\* the first factor read as (pi / (Alpha + Beta)) ** 1.5
OverLap_S_int_Textbook(Alpha, Beta, R2_ab) ==
    Mul(Pow15(Div(Pi, Alpha + Beta)),
        Exp(Mul(Div(Mul(-Alpha, Beta), Alpha + Beta), R2_ab)))

\* (np.pi / (Alpha + Beta) ** 1.5) * np.exp(-Alpha * Beta / (Alpha + Beta) * R2_ab)
OverLap_S_int(Alpha, Beta, R2_ab) ==
    Mul(Div(Pi, Pow15(Alpha + Beta)),
        Exp(Mul(Div(Mul(-Alpha, Beta), Alpha + Beta), R2_ab)))

Kinetic_T_int(Alpha, Beta, R2_ab) ==
    Mul(Div(Mul(Alpha, Beta), Alpha + Beta),
        3 * Scale
        - Mul(Div(Mul(Mul(Div(Mul(2 * Alpha, Beta), Alpha + Beta), R2_ab), Pi),
                  Pow15(Alpha + Beta)),
              Exp(Div(Mul(Mul(-Alpha, Beta), R2_ab), Alpha + Beta))))

Potential_V_int(Alpha, Beta, Zc, R2_ab, R2_pc) ==
    Mul(Mul(Mul(Div(Mul(-2 * Scale, Pi), Alpha + Beta), Zc),
            Exp(Div(Mul(Mul(-Alpha, Beta), R2_ab), Alpha + Beta))),
        F0(Mul(Alpha + Beta, R2_pc)))

TwoE_int(Alpha, Beta, Gamma, Delta_, R2_ab, R2_cd, R2_pq) ==
    Mul(Mul(Div(Mul(2 * Scale, Pi25),
                Mul(Mul(Alpha + Beta, Gamma + Delta_),
                    Sqrt(Alpha + Beta + Gamma + Delta_))),
            Exp(Div(Mul(Mul(-Alpha, Beta), R2_ab), Alpha + Beta)
                - Div(Mul(Mul(Gamma, Delta_), R2_cd), Gamma + Delta_))),
        F0(Div(Mul(Mul(Alpha + Beta, Gamma + Delta_), R2_pq),
               Alpha + Beta + Gamma + Delta_)))

Ix == 0..1
Mat(a, b, c, d) ==
    [i \in Ix |-> [j \in Ix |->
        IF i = 0 THEN (IF j = 0 THEN a ELSE b) ELSE (IF j = 0 THEN c ELSE d)]]
Zeros2 == Mat(0, 0, 0, 0)

\* np.matmul on 2x2 matrices
MatMul(A, B) ==
    [i \in Ix |-> [j \in Ix |-> Mul(A[i][0], B[0][j]) + Mul(A[i][1], B[1][j])]]

\* A.T
Transpose(A) == [i \in Ix |-> [j \in Ix |-> A[j][i]]]


VARIABLES
    pc,                                   \* position in the program
    N, R, Zeta1, Zeta2, Z_H, Z_He,        \* arguments of HFCALC
    ao,                                   \* the arguments AO_Integral was called with
    Exp_H1s, Exp_He1s, Coe_H1s, Coe_He1s, \* contracted basis of AO_Integral
    ints,                                 \* the 16 AO integrals
    H, S, X, V,                           \* results of Collect
    Iter, P, OldP, G, F, Energy,          \* locals of SCF
    Fprime, Cprime, E, C, Delta,
    EnergyTotal,
    reports,                              \* what SCF printed when it left the loop
    arg, ret                              \* argument and result of a function called alone

vars == <<pc, N, R, Zeta1, Zeta2, Z_H, Z_He, ao, Exp_H1s, Exp_He1s, Coe_H1s, Coe_He1s,
          ints, H, S, X, V, Iter, P, OldP, G, F, Energy, Fprime, Cprime, E, C,
          Delta, EnergyTotal, reports, arg, ret>>

argVars == <<N, R, Zeta1, Zeta2, Z_H, Z_He>>
basisVars == <<ao, Exp_H1s, Exp_He1s, Coe_H1s, Coe_He1s>>
collectVars == <<H, S, X, V>>
scfVars == <<Iter, P, OldP, G, F, Energy, Fprime, Cprime, E, C, Delta, EnergyTotal, reports>>
unitVars == <<arg, ret>>

(***************************************************************************)
(* Diag: closed-form diagonalisation of a 2x2 symmetric matrix.            *)
(***************************************************************************)

\* the rotation angle
TheTa(M) ==
    IF Abs(M[0][0] - M[1][1]) > 0      \* > 1.0e-20: any non-zero grid value
    THEN Half(AtanDiv(2 * M[0][1], M[0][0] - M[1][1]))
    ELSE Pi \div 4

\* Cprime and E as computed from the angle, before the ordering
DiagRotate(M) ==
    LET t  == TheTa(M)
        c  == Cos(t)
        s  == Sin(t)
        s2 == Sin(2 * t)
    IN  [Cprime |-> Mat(c, s, s, -c),
         E |-> Mat(Mul(M[0][0], Mul(c, c)) + Mul(M[1][1], Mul(s, s)) + Mul(M[0][1], s2),
                   0, 0,
                   Mul(M[1][1], Mul(c, c)) + Mul(M[0][0], Mul(s, s)) + Mul(M[0][1], s2))]

\* a plausible other ordering: exchange the columns of Cprime with the eigenvalues
DiagOrderColumns(d) ==
    IF d.E[1][1] <= d.E[0][0]
    THEN [Cprime |-> Mat(d.Cprime[0][1], d.Cprime[0][0], d.Cprime[1][1], d.Cprime[1][0]),
          E |-> Mat(d.E[1][1], d.E[0][1], d.E[1][0], d.E[0][0])]
    ELSE d

\* a plausible slip: the comparison turned round
DiagOrderReversed(d) ==
    IF d.E[0][0] <= d.E[1][1]
    THEN [Cprime |-> Mat(d.Cprime[1][1], d.Cprime[0][1], d.Cprime[1][0], d.Cprime[0][0]),
          E |-> Mat(d.E[1][1], d.E[0][1], d.E[1][0], d.E[0][0])]
    ELSE d

\* order eigenvalues E and eigenvectors Cprime
DiagOrder(d) ==
    IF d.E[1][1] <= d.E[0][0]
    THEN [Cprime |-> Mat(d.Cprime[1][1], d.Cprime[0][1], d.Cprime[1][0], d.Cprime[0][0]),
          E |-> Mat(d.E[1][1], d.E[0][1], d.E[1][0], d.E[0][0])]
    ELSE d

Diag(M) == DiagOrder(DiagRotate(M))

(***************************************************************************)
(* AO_Integral: contraction of the STO-nG primitives and the AO integrals. *)
(***************************************************************************)

IntegralNames ==
    {"S12", "T11", "T12", "T22", "V11H", "V12H", "V22H", "V11He", "V12He", "V22He",
     "V1111", "V2111", "V2121", "V2211", "V2221", "V2222"}

ZeroIntegrals == [n \in IntegralNames |-> 0]

\* STO-nG coefficients and exponents for Zeta = 1.0, rows n = 1, 2, 3
Coefft == << <<1000000, 0, 0>>, <<678914, 430129, 0>>, <<444635, 535328, 154329>> >>
Expont == << <<270950, 0, 0>>, <<151623, 851819, 0>>, <<109818, 405771, 2227660>> >>

\* Expont[N - 1, i] raises IndexError for a row outside the 3 x 3 table
\* (rows -3..-1 count from the end)
RowInTable(r) == r \in -3..2
Row(r) == IF r < 0 THEN r + 4 ELSE r + 1

Zeros3 == [i \in 0..2 |-> 0]

\* Expont[N - 1, i] * (Zeta ** 2)
ScaledExponent(n, i, Zeta) == Mul(Expont[Row(n - 1)][i + 1], Mul(Zeta, Zeta))

\* Coefft[N - 1, i] * ((2.0 * Exp[i] / np.pi) ** 0.75)
ScaledCoefficient(n, i, Expo) ==
    Mul(Coefft[Row(n - 1)][i + 1], Pow075(Div(2 * Expo, Pi)))

R2 == Mul(ao.R, ao.R)

\* what one pass (i, j) of the one-electron loop adds to the accumulators
OneElectronTerms(i, j) ==
    LET R_ap  == Div(Mul(Exp_He1s[j], ao.R), Exp_H1s[i] + Exp_He1s[j])
        R2_ap == Mul(R_ap, R_ap)
        R2_bp == Mul(ao.R - R_ap, ao.R - R_ap)
        HH    == Mul(Coe_H1s[i], Coe_H1s[j])
    IN  [ZeroIntegrals EXCEPT
          !.S12 = Mul(Mul(OverLap_S_int(Exp_H1s[i], Exp_He1s[j], R2), Coe_H1s[i]), Coe_He1s[j]),
          !.T11 = Mul(Mul(Kinetic_T_int(Exp_H1s[i], Exp_H1s[j], 0), Coe_H1s[i]), Coe_H1s[j]),
          !.T12 = Mul(Mul(Kinetic_T_int(Exp_H1s[i], Exp_He1s[j], R2), Coe_H1s[i]), Coe_He1s[j]),
          !.T22 = Mul(Mul(Kinetic_T_int(Exp_He1s[i], Exp_He1s[j], 0), Coe_He1s[i]), Coe_He1s[j]),
          !.V11H = Mul(Mul(Potential_V_int(Exp_H1s[i], Exp_H1s[j], ao.Z_H, 0, 0),
                           Coe_H1s[i]), Coe_H1s[j]),
          !.V12H = Mul(Mul(Potential_V_int(Exp_H1s[i], Exp_He1s[j], ao.Z_H, R2, R2_ap),
                           Coe_H1s[i]), Coe_He1s[j]),
          !.V22H = Mul(Mul(Potential_V_int(Exp_He1s[i], Exp_He1s[j], ao.Z_H, 0, R2),
                           Coe_He1s[i]), Coe_He1s[j]),
          !.V11He = Mul(Mul(Potential_V_int(Exp_H1s[i], Exp_H1s[j], ao.Z_He, 0, R2),
                            Coe_H1s[i]), Coe_H1s[j]),
          !.V12He = Mul(Mul(Potential_V_int(Exp_H1s[i], Exp_He1s[j], ao.Z_He, R2, R2_bp),
                            Coe_H1s[i]), Coe_He1s[j]),
          !.V22He = Mul(Mul(Potential_V_int(Exp_He1s[i], Exp_He1s[j], ao.Z_He, 0, 0),
                            Coe_He1s[i]), Coe_He1s[j])]

\* value * c1 * c2 * c3 * c4
Weighted(v, c1, c2, c3, c4) == Mul(Mul(Mul(Mul(v, c1), c2), c3), c4)

\* what one pass (i, j, k, l) of the two-electron loop adds to the accumulators
TwoElectronTerms(i, j, k, l) ==
    LET R_ap  == Div(Mul(Exp_He1s[i], ao.R), Exp_He1s[i] + Exp_H1s[j])
        R_bp  == ao.R - R_ap
        R_aq  == Div(Mul(Exp_He1s[k], ao.R), Exp_He1s[k] + Exp_H1s[l])
        R_bq  == ao.R - R_aq
        R2_ap == Mul(R_ap, R_ap)
        R2_bq == Mul(R_bq, R_bq)
        R_pq  == R_ap - R_aq
        R2_pq == Mul(R_pq, R_pq)
    IN  [ZeroIntegrals EXCEPT
          !.V1111 = Weighted(TwoE_int(Exp_H1s[i], Exp_H1s[j], Exp_H1s[k], Exp_H1s[l], 0, 0, 0),
                             Coe_H1s[i], Coe_H1s[j], Coe_H1s[k], Coe_H1s[l]),
          !.V2111 = Weighted(TwoE_int(Exp_He1s[i], Exp_H1s[j], Exp_H1s[k], Exp_H1s[l],
                                      R2, 0, R2_ap),
                             Coe_He1s[i], Coe_H1s[j], Coe_H1s[k], Coe_H1s[l]),
          !.V2121 = Weighted(TwoE_int(Exp_He1s[i], Exp_H1s[j], Exp_He1s[k], Exp_H1s[l],
                                      R2, R2, R2_pq),
                             Coe_He1s[i], Coe_H1s[j], Coe_He1s[k], Coe_H1s[l]),
          !.V2211 = Weighted(TwoE_int(Exp_He1s[i], Exp_He1s[j], Exp_H1s[k], Exp_H1s[l],
                                      0, 0, R2),
                             Coe_He1s[i], Coe_He1s[j], Coe_H1s[k], Coe_H1s[l]),
          !.V2221 = Weighted(TwoE_int(Exp_He1s[i], Exp_He1s[j], Exp_He1s[k], Exp_H1s[l],
                                      0, R2, R2_bq),
                             Coe_He1s[i], Coe_He1s[j], Coe_He1s[k], Coe_H1s[l]),
          !.V2222 = Weighted(TwoE_int(Exp_He1s[i], Exp_He1s[j], Exp_He1s[k], Exp_He1s[l],
                                      0, 0, 0),
                             Coe_He1s[i], Coe_He1s[j], Coe_He1s[k], Coe_He1s[l])]

AddIntegrals(a, b) == [n \in IntegralNames |-> a[n] + b[n]]

RECURSIVE OneElectronSum(_, _)
\* the passes q, q + 1, ... of "for i in range(n): for j in range(n)"
OneElectronSum(n, q) ==
    IF n <= 0 \/ q >= n * n THEN ZeroIntegrals
    ELSE AddIntegrals(OneElectronTerms(q \div n, q % n), OneElectronSum(n, q + 1))

RECURSIVE TwoElectronSum(_, _)
\* the passes q, q + 1, ... of the loops over i, j, k, l in range(n)
TwoElectronSum(n, q) ==
    IF n <= 0 \/ q >= n * n * n * n THEN ZeroIntegrals
    ELSE AddIntegrals(TwoElectronTerms(q \div (n * n * n), (q \div (n * n)) % n,
                                       (q \div n) % n, q % n),
                      TwoElectronSum(n, q + 1))

\* AO_Integral(N, R, Zeta1, Z_H, Z_H, Z_He): the fourth argument is Z_H
PassArguments ==
    [N |-> N, R |-> R, Zeta1 |-> Zeta1, Zeta2 |-> Z_H, Z_H |-> Z_H, Z_He |-> Z_He]

\* HFCALC calls AO_Integral, which zeroes its accumulators and its basis arrays
HFCALC_Call ==
    /\ pc = "HFCALC"
    /\ ao' = PassArguments
    /\ ints' = ZeroIntegrals
    /\ Exp_H1s' = Zeros3 /\ Exp_He1s' = Zeros3
    /\ Coe_H1s' = Zeros3 /\ Coe_He1s' = Zeros3
    /\ pc' = "AO_contract"
    /\ UNCHANGED <<argVars, collectVars, scfVars, unitVars>>

\* the contraction loop "for i in range(N)"
AO_Contract ==
    /\ pc = "AO_contract"
    /\ ao.N <= 0 \/ RowInTable(ao.N - 1)
    /\ Exp_H1s' = [i \in 0..2 |-> IF i < ao.N THEN ScaledExponent(ao.N, i, ao.Zeta1) ELSE 0]
    /\ Exp_He1s' = [i \in 0..2 |-> IF i < ao.N THEN ScaledExponent(ao.N, i, ao.Zeta2) ELSE 0]
    /\ Coe_H1s' = [i \in 0..2 |-> IF i < ao.N
                                  THEN ScaledCoefficient(ao.N, i, ScaledExponent(ao.N, i, ao.Zeta1))
                                  ELSE 0]
    /\ Coe_He1s' = [i \in 0..2 |-> IF i < ao.N
                                   THEN ScaledCoefficient(ao.N, i, ScaledExponent(ao.N, i, ao.Zeta2))
                                   ELSE 0]
    /\ pc' = "AO_one"
    /\ UNCHANGED <<argVars, ao, ints, collectVars, scfVars, unitVars>>

\* its first pass raises IndexError when the row N - 1 is not in the table
AO_IndexError ==
    /\ pc = "AO_contract"
    /\ ao.N > 0 /\ ~RowInTable(ao.N - 1)
    /\ pc' = "error"
    /\ UNCHANGED <<argVars, basisVars, ints, collectVars, scfVars, unitVars>>

AO_OneElectron ==
    /\ pc = "AO_one"
    /\ ints' = AddIntegrals(ints, OneElectronSum(ao.N, 0))
    /\ pc' = "AO_two"
    /\ UNCHANGED <<argVars, basisVars, collectVars, scfVars, unitVars>>

\* the two-electron loops, and the return of the 16 values to HFCALC
AO_TwoElectron ==
    /\ pc = "AO_two"
    /\ ints' = AddIntegrals(ints, TwoElectronSum(ao.N, 0))
    /\ pc' = "Collect"
    /\ UNCHANGED <<argVars, basisVars, collectVars, scfVars, unitVars>>

AO_Integral == AO_Contract \/ AO_IndexError \/ AO_OneElectron \/ AO_TwoElectron

(***************************************************************************)
(* Collect: core Hamiltonian, overlap, orthogonalising matrix, V tensor.   *)
(***************************************************************************)

Collect_H(I) ==
    LET H01 == I.T12 + I.V12H + I.V12He
    IN  Mat(I.T11 + I.V11H + I.V11He, H01, H01, I.T22 + I.V22H + I.V22He)

Collect_S(I) == Mat(Scale, I.S12, I.S12, Scale)

\* X[0,1] is first set to X[0,0] and then overwritten; X[1,0] keeps the zero of np.zeros
Collect_X(I) ==
    LET X00 == Div(Scale, Sqrt(2 * (Scale + I.S12)))
        X01 == Div(Scale, Sqrt(2 * (Scale - I.S12)))
    IN  Mat(X00, X01, 0, -X01)

\* a plausible slip: one of the sixteen assignments takes the wrong scalar
Collect_VSlip(I) ==
    (<<0, 0, 0, 0>> :> I.V1111) @@ (<<0, 0, 0, 1>> :> I.V2111) @@
    (<<0, 0, 1, 0>> :> I.V2111) @@ (<<0, 0, 1, 1>> :> I.V2211) @@
    (<<0, 1, 0, 0>> :> I.V2111) @@ (<<0, 1, 0, 1>> :> I.V2121) @@
    (<<0, 1, 1, 0>> :> I.V2211) @@ (<<0, 1, 1, 1>> :> I.V2221) @@
    (<<1, 0, 0, 0>> :> I.V2111) @@ (<<1, 0, 0, 1>> :> I.V2121) @@
    (<<1, 0, 1, 0>> :> I.V2121) @@ (<<1, 0, 1, 1>> :> I.V2221) @@
    (<<1, 1, 0, 0>> :> I.V2211) @@ (<<1, 1, 0, 1>> :> I.V2221) @@
    (<<1, 1, 1, 0>> :> I.V2221) @@ (<<1, 1, 1, 1>> :> I.V2222)

Collect_V(I) ==
    (<<0, 0, 0, 0>> :> I.V1111) @@ (<<0, 0, 0, 1>> :> I.V2111) @@
    (<<0, 0, 1, 0>> :> I.V2111) @@ (<<0, 0, 1, 1>> :> I.V2211) @@
    (<<0, 1, 0, 0>> :> I.V2111) @@ (<<0, 1, 0, 1>> :> I.V2121) @@
    (<<0, 1, 1, 0>> :> I.V2121) @@ (<<0, 1, 1, 1>> :> I.V2221) @@
    (<<1, 0, 0, 0>> :> I.V2111) @@ (<<1, 0, 0, 1>> :> I.V2121) @@
    (<<1, 0, 1, 0>> :> I.V2121) @@ (<<1, 0, 1, 1>> :> I.V2221) @@
    (<<1, 1, 0, 0>> :> I.V2211) @@ (<<1, 1, 0, 1>> :> I.V2221) @@
    (<<1, 1, 1, 0>> :> I.V2221) @@ (<<1, 1, 1, 1>> :> I.V2222)

ZeroTensor == [q \in Ix \X Ix \X Ix \X Ix |-> 0]

Collect ==
    /\ pc = "Collect"
    /\ H' = Collect_H(ints)
    /\ S' = Collect_S(ints)
    /\ X' = Collect_X(ints)
    /\ V' = Collect_V(ints)
    /\ pc' = "SCF"
    /\ UNCHANGED <<argVars, basisVars, ints, scfVars, unitVars>>

(***************************************************************************)
(* SCF: the self-consistent-field loop.                                    *)
(***************************************************************************)

Crit == 1            \* 1e-15, rounded up to one unit of the grid
Maxit == 250

\* two-electron part of the Fock matrix
Fock_G(p, v) ==
    [i \in Ix |-> [j \in Ix |->
          Mul(p[0][0], v[<<i, j, 0, 0>>] - Half(v[<<i, 0, 0, j>>]))
        + Mul(p[0][1], v[<<i, j, 0, 1>>] - Half(v[<<i, 1, 0, j>>]))
        + Mul(p[1][0], v[<<i, j, 1, 0>>] - Half(v[<<i, 0, 1, j>>]))
        + Mul(p[1][1], v[<<i, j, 1, 1>>] - Half(v[<<i, 1, 1, j>>]))]]

MatAdd(A, B) == [i \in Ix |-> [j \in Ix |-> A[i][j] + B[i][j]]]

ElecEnergy(p, h, f) ==
      Mul(Half(p[0][0]), h[0][0] + f[0][0]) + Mul(Half(p[0][1]), h[0][1] + f[0][1])
    + Mul(Half(p[1][0]), h[1][0] + f[1][0]) + Mul(Half(p[1][1]), h[1][1] + f[1][1])

\* new density from the orbital coefficients (k ranges over range(1))
Density(c) == [i \in Ix |-> [j \in Ix |-> Mul(2 * c[i][0], c[0][j])]]

DensityChange(p, q) ==
    LET d == [i \in Ix |-> [j \in Ix |-> p[i][j] - q[i][j]]]
    IN  Sqrt((Mul(d[0][0], d[0][0]) + Mul(d[0][1], d[0][1])
              + Mul(d[1][0], d[1][0]) + Mul(d[1][1], d[1][1])) \div 4)

\* a plausible other guess: the unit matrix
GuessUnit == Mat(Scale, 0, 0, Scale)

\* the initial density matrix: P = np.zeros([2, 2])
GuessP == Zeros2

SCF_Start ==
    /\ pc = "SCF"
    /\ Iter' = 0
    /\ P' = GuessP
    /\ pc' = "while"
    /\ UNCHANGED <<argVars, basisVars, ints, collectVars, OldP, G, F, Energy, Fprime,
                   Cprime, E, C, Delta, EnergyTotal, reports, unitVars>>

\* a plausible slip: the loop left one test later
LoopTestLate(it) == it > Maxit

\* elif Iter >= Maxit
LoopTest(it) == it >= Maxit

SCF_While ==
    /\ pc = "while"
    /\ IF Iter <= Maxit
       THEN Iter' = Iter + 1 /\ pc' = "fock"
       ELSE Iter' = Iter /\ pc' = "done"
    /\ UNCHANGED <<argVars, basisVars, ints, collectVars, P, OldP, G, F, Energy, Fprime,
                   Cprime, E, C, Delta, EnergyTotal, reports, unitVars>>

SCF_Fock ==
    /\ pc = "fock"
    /\ G' = Fock_G(P, V)
    /\ F' = MatAdd(H, Fock_G(P, V))
    /\ pc' = "energy"
    /\ UNCHANGED <<argVars, basisVars, ints, collectVars, Iter, P, OldP, Energy, Fprime,
                   Cprime, E, C, Delta, EnergyTotal, reports, unitVars>>

SCF_Energy ==
    /\ pc = "energy"
    /\ Energy' = ElecEnergy(P, H, F)
    /\ pc' = "fprime"
    /\ UNCHANGED <<argVars, basisVars, ints, collectVars, Iter, P, OldP, G, F, Fprime,
                   Cprime, E, C, Delta, EnergyTotal, reports, unitVars>>

SCF_Fprime ==
    /\ pc = "fprime"
    /\ G' = MatMul(F, X)
    /\ Fprime' = MatMul(Transpose(X), MatMul(F, X))
    /\ pc' = "diag"
    /\ UNCHANGED <<argVars, basisVars, ints, collectVars, Iter, P, OldP, F, Energy,
                   Cprime, E, C, Delta, EnergyTotal, reports, unitVars>>

SCF_Diag ==
    /\ pc = "diag"
    /\ Cprime' = Diag(Fprime).Cprime
    /\ E' = Diag(Fprime).E
    /\ pc' = "coeff"
    /\ UNCHANGED <<argVars, basisVars, ints, collectVars, Iter, P, OldP, G, F, Energy,
                   Fprime, C, Delta, EnergyTotal, reports, unitVars>>

SCF_C ==
    /\ pc = "coeff"
    /\ C' = MatMul(X, Cprime)
    /\ pc' = "density"
    /\ UNCHANGED <<argVars, basisVars, ints, collectVars, Iter, P, OldP, G, F, Energy,
                   Fprime, Cprime, E, Delta, EnergyTotal, reports, unitVars>>

SCF_Density ==
    /\ pc = "density"
    /\ OldP' = P
    /\ P' = Density(C)
    /\ pc' = "delta"
    /\ UNCHANGED <<argVars, basisVars, ints, collectVars, Iter, G, F, Energy,
                   Fprime, Cprime, E, C, Delta, EnergyTotal, reports, unitVars>>

SCF_Delta ==
    /\ pc = "delta"
    /\ Delta' = DensityChange(P, OldP)
    /\ pc' = "test"
    /\ UNCHANGED <<argVars, basisVars, ints, collectVars, Iter, P, OldP, G, F, Energy,
                   Fprime, Cprime, E, C, EnergyTotal, reports, unitVars>>

SCF_Converged ==
    /\ pc = "test"
    /\ Delta < Crit
    /\ EnergyTotal' = Energy + Div(Mul(Z_H, Z_He), R)
    /\ reports' = Append(reports, "Calculation converged")
    /\ pc' = "done"
    /\ UNCHANGED <<argVars, basisVars, ints, collectVars, Iter, P, OldP, G, F, Energy,
                   Fprime, Cprime, E, C, Delta, unitVars>>

SCF_NotConverged ==
    /\ pc = "test"
    /\ ~(Delta < Crit)
    /\ LoopTest(Iter)
    /\ reports' = Append(reports, "Not converged")
    /\ pc' = "done"
    /\ UNCHANGED <<argVars, basisVars, ints, collectVars, Iter, P, OldP, G, F, Energy,
                   Fprime, Cprime, E, C, Delta, EnergyTotal, unitVars>>

SCF_Again ==
    /\ pc = "test"
    /\ ~(Delta < Crit)
    /\ ~LoopTest(Iter)
    /\ pc' = "while"
    /\ UNCHANGED <<argVars, basisVars, ints, collectVars, scfVars, unitVars>>

SCF ==
    \/ SCF_Start \/ SCF_While \/ SCF_Fock \/ SCF_Energy \/ SCF_Fprime \/ SCF_Diag
    \/ SCF_C \/ SCF_Density \/ SCF_Delta \/ SCF_Converged \/ SCF_NotConverged
    \/ SCF_Again


(***************************************************************************)
(* Diag called alone on a symmetric matrix Fprime.                         *)
(***************************************************************************)

MaxM == 4
MatrixValues == {k * (Scale \div 2) : k \in -MaxM..MaxM}
DiagInputs == {Mat(a, b, b, d) : a \in MatrixValues, b \in MatrixValues, d \in MatrixValues}

\* every variable the specification at hand does not use
Idle ==
    [N |-> 0, R |-> Scale, Zeta1 |-> Scale, Zeta2 |-> Scale, Z_H |-> Scale,
     Z_He |-> 2 * Scale, Basis |-> [i \in 0..2 |-> 0], ints |-> ZeroIntegrals,
     M |-> Zeros2, V |-> ZeroTensor, arg |-> <<>>, ret |-> <<>>, ao |-> <<>>]

InitArgsIdle ==
    /\ N = Idle.N /\ R = Idle.R /\ Zeta1 = Idle.Zeta1 /\ Zeta2 = Idle.Zeta2
    /\ Z_H = Idle.Z_H /\ Z_He = Idle.Z_He
InitBasisIdle ==
    /\ ao = Idle.ao
    /\ Exp_H1s = Idle.Basis /\ Exp_He1s = Idle.Basis
    /\ Coe_H1s = Idle.Basis /\ Coe_He1s = Idle.Basis
InitCollectIdle == H = Idle.M /\ S = Idle.M /\ X = Idle.M /\ V = Idle.V
InitSCFLocals ==
    /\ Iter = 0 /\ P = Zeros2 /\ OldP = Zeros2 /\ G = Zeros2 /\ F = Zeros2
    /\ Energy = 0 /\ Cprime = Zeros2 /\ E = Zeros2 /\ C = Zeros2
    /\ Delta = 0 /\ EnergyTotal = 0 /\ reports = <<>>
InitUnitIdle == arg = Idle.arg /\ ret = Idle.ret

InitDiag ==
    /\ pc = "Diag"
    /\ Fprime \in DiagInputs
    /\ InitArgsIdle /\ InitBasisIdle /\ ints = Idle.ints /\ InitCollectIdle
    /\ InitSCFLocals /\ InitUnitIdle

Diag_Rotate ==
    /\ pc = "Diag"
    /\ Cprime' = DiagRotate(Fprime).Cprime
    /\ E' = DiagRotate(Fprime).E
    /\ pc' = "Diag_order"
    /\ UNCHANGED <<argVars, basisVars, ints, collectVars, Iter, P, OldP, G, F, Energy,
                   Fprime, C, Delta, EnergyTotal, reports, unitVars>>

Diag_Order ==
    /\ pc = "Diag_order"
    /\ Cprime' = DiagOrder([Cprime |-> Cprime, E |-> E]).Cprime
    /\ E' = DiagOrder([Cprime |-> Cprime, E |-> E]).E
    /\ pc' = "Diag_return"
    /\ UNCHANGED <<argVars, basisVars, ints, collectVars, Iter, P, OldP, G, F, Energy,
                   Fprime, C, Delta, EnergyTotal, reports, unitVars>>

NextDiag == Diag_Rotate \/ Diag_Order
SpecDiag == InitDiag /\ [][NextDiag]_vars


(***************************************************************************)
(* Collect and SCF on integrals drawn from a grid.                          *)
(***************************************************************************)

MaxS == 1
MaxT == 1
MaxV == 1

\* the 16 values in the order AO_Integral returns them and Collect takes them
Integrals(S12, T11, T12, T22, V11H, V12H, V22H, V11He, V12He, V22He, V1111, V2111, V2121, V2211, V2221, V2222) ==
    [S12 |-> S12, T11 |-> T11, T12 |-> T12, T22 |-> T22,
     V11H |-> V11H, V12H |-> V12H, V22H |-> V22H,
     V11He |-> V11He, V12He |-> V12He, V22He |-> V22He,
     V1111 |-> V1111, V2111 |-> V2111, V2121 |-> V2121,
     V2211 |-> V2211, V2221 |-> V2221, V2222 |-> V2222]

SCFInputs ==
    {Integrals(s * (Scale \div 4), a * Scale, b * Scale, -Scale,
               -Scale, 0, 0, 0, 0, 0,
               Scale, u * (Scale \div 2), w * (Scale \div 2), Scale, 0, Scale) :
        s \in 0..MaxS, a \in -MaxT..0, b \in -MaxT..MaxT,
        u \in 0..MaxV, w \in 0..MaxV}

InitSCF ==
    /\ pc = "Collect"
    /\ ints \in SCFInputs
    /\ N = 3 /\ R = 1463200 /\ Zeta1 = 2092500 /\ Zeta2 = 1240000
    /\ Z_H = Scale /\ Z_He = 2 * Scale
    /\ InitBasisIdle /\ InitCollectIdle /\ InitSCFLocals /\ Fprime = Zeros2
    /\ InitUnitIdle

NextSCF == Collect \/ SCF
SpecSCF == InitSCF /\ [][NextSCF]_vars


(***************************************************************************)
(* Collect called alone on integrals whose two-electron values vary freely. *)
(***************************************************************************)

MaxC == 1
CollectValues == {k * (Scale \div 4) : k \in 0..MaxC}
CollectInputs ==
    {Integrals(s, -Scale, 0, -Scale, 0, 0, 0, 0, 0, 0, v1, v2, v3, v4, v5, v6) :
        s \in CollectValues \cup {Scale \div 2}, v1 \in CollectValues,
        v2 \in CollectValues, v3 \in CollectValues, v4 \in CollectValues,
        v5 \in CollectValues, v6 \in CollectValues}

InitCollect ==
    /\ pc = "Collect"
    /\ ints \in CollectInputs
    /\ InitArgsIdle /\ InitBasisIdle /\ InitCollectIdle /\ InitSCFLocals
    /\ Fprime = Zeros2 /\ InitUnitIdle

NextCollect == Collect
SpecCollect == InitCollect /\ [][NextCollect]_vars

(***************************************************************************)
(* Properties of Diag (SpecDiag).                                          *)
(***************************************************************************)

Tol == Scale \div 10^5
Near(a, b) == Abs(a - b) <= Tol

\* C3: the eigenvalue matrix returned by Diag has E[0,0] <= E[1,1]; for
\* M = [[2,0],[0,1]] it holds E[0,0] = 1 and E[1,1] = 2.
C3_Ascending ==
    pc = "Diag_return" =>
        /\ E[0][0] <= E[1][1]
        /\ Fprime = Mat(2 * Scale, 0, 0, Scale) => E[0][0] = Scale /\ E[1][1] = 2 * Scale

C3_Witness ==
    /\ pc = "Diag_return"
    /\ Fprime = Mat(2 * Scale, 0, 0, Scale)
    /\ E = Mat(Scale, 0, 0, 2 * Scale)
    /\ DiagRotate(Fprime).E = Mat(2 * Scale, 0, 0, Scale)

\* C9 (as claimed): the diagonal of E holds the two eigenvalues of M, so
\* E[0,0] + E[1,1] = M[0,0] + M[1,1]; in the degenerate branch M[0,0] = M[1,1] = a,
\* M[0,1] = b the results are a - |b| and a + |b|; the off-diagonal entries of E are 0.
C9_Eigenvalues ==
    pc = "Diag_return" =>
        /\ Near(E[0][0] + E[1][1], Fprime[0][0] + Fprime[1][1])
        /\ Fprime[0][0] = Fprime[1][1] =>
              /\ Near(E[0][0], Fprime[0][0] - Abs(Fprime[0][1]))
              /\ Near(E[1][1], Fprime[0][0] + Abs(Fprime[0][1]))
        /\ E[0][1] = 0 /\ E[1][0] = 0

\* C10: the ordering step, when E[1,1] <= E[0,0], exchanges E[0,0] with E[1,1] and
\* Cprime[0,0] with Cprime[1,1] and leaves Cprime[0,1], Cprime[1,0], E[0,1], E[1,0]
\* unchanged; otherwise Cprime and E stay exactly as computed from the angle.
C10_OrderingFrame ==
    [][pc = "Diag_order" =>
        IF E[1][1] <= E[0][0]
        THEN /\ E'[0][0] = E[1][1] /\ E'[1][1] = E[0][0]
             /\ Cprime'[0][0] = Cprime[1][1] /\ Cprime'[1][1] = Cprime[0][0]
             /\ Cprime'[0][1] = Cprime[0][1] /\ Cprime'[1][0] = Cprime[1][0]
             /\ E'[0][1] = E[0][1] /\ E'[1][0] = E[1][0]
        ELSE /\ Cprime' = Cprime /\ E' = E
             /\ Cprime' = DiagRotate(Fprime).Cprime /\ E' = DiagRotate(Fprime).E]_vars

C10_Witness ==
    /\ pc = "Diag_return"
    /\ E[0][0] # E[1][1]
    /\ E[0][0] = DiagRotate(Fprime).E[1][1]
    /\ Cprime[0][0] = DiagRotate(Fprime).Cprime[1][1]
    /\ Cprime[0][0] # Cprime[1][1]

(***************************************************************************)
(* Properties of Collect (SpecCollect) and of SCF (SpecSCF).               *)
(***************************************************************************)

Quads == Ix \X Ix \X Ix \X Ix

\* C7: V has all 16 entries assigned from the six scalars by the index map, and
\* V[i,j,k,l] = V[j,i,k,l] = V[i,j,l,k] = V[k,l,i,j] for all i, j, k, l.
C7_TensorSymmetry ==
    pc = "SCF" =>
        /\ DOMAIN V = Quads
        /\ \A q \in Quads :
              /\ V[q] = V[<<q[2], q[1], q[3], q[4]>>]
              /\ V[q] = V[<<q[1], q[2], q[4], q[3]>>]
              /\ V[q] = V[<<q[3], q[4], q[1], q[2]>>]
              /\ V[q] = CASE q[1] + q[2] + q[3] + q[4] = 0 -> ints.V1111
                          [] q[1] + q[2] + q[3] + q[4] = 1 -> ints.V2111
                          [] q[1] + q[2] + q[3] + q[4] = 3 -> ints.V2221
                          [] q[1] + q[2] + q[3] + q[4] = 4 -> ints.V2222
                          [] OTHER -> IF q[1] = q[2] THEN ints.V2211 ELSE ints.V2121

C7_Witness ==
    /\ pc = "SCF"
    /\ ints.V2211 # ints.V2121
    /\ V[<<0, 1, 1, 0>>] = ints.V2121
    /\ V[<<1, 1, 0, 0>>] = ints.V2211
    /\ V[<<0, 1, 1, 1>>] # V[<<0, 0, 0, 1>>]

InSCF == pc \in {"while", "fock", "energy", "fprime", "diag", "coeff", "density",
                 "delta", "test", "done"}

\* C6 (as claimed): the density matrix is symmetric, P[0,1] = P[1,0], at
\* initialisation and after the density step of every iteration.
C6_DensitySymmetric == InSCF => Near(P[0][1], P[1][0])

\* the program's position, counted in steps: nine per iteration
Position ==
    CASE pc = "fock" -> 0 [] pc = "energy" -> 1 [] pc = "fprime" -> 2
      [] pc = "diag" -> 3 [] pc = "coeff" -> 4 [] pc = "density" -> 5
      [] pc = "delta" -> 6 [] pc = "test" -> 7 [] pc = "while" -> 8
      [] pc = "done" -> 9 [] pc = "SCF" -> -1 [] OTHER -> -2
Progress == IF InSCF THEN 9 * Iter + Position ELSE Position

C2_Outcome ==
    /\ Iter <= Maxit
    /\ Progress <= 9 * Maxit + 9
    /\ pc # "done" => reports = <<>>
    /\ pc = "done" =>
          \/ reports = <<"Calculation converged">> /\ Delta < Crit
          \/ reports = <<"Not converged">> /\ ~(Delta < Crit) /\ Iter = Maxit

\* C2: the loop ends after at most 250 iterations (every step advances a position
\* that is bounded by 9 * Maxit + 9), in exactly one of the outcomes Converged
\* (Delta < Crit in the last iteration) or "Not converged".
C2_Terminates == []C2_Outcome /\ [][Progress' > Progress]_vars

C2_Witness ==
    /\ pc = "done"
    /\ reports = <<"Not converged">>
    /\ Iter = Maxit


\* C11: in the first iteration the density matrix is zero, so the two-electron
\* part G is the zero matrix, the Fock matrix equals the core Hamiltonian H and the
\* electronic energy computed in that iteration is 0; a non-zero electronic energy
\* appears from iteration 2 onwards only.
C11_FirstIteration ==
    /\ (Iter = 1 /\ pc \in {"fock", "energy", "fprime"}) => P = Zeros2
    /\ (Iter = 1 /\ pc \in {"energy", "fprime"}) => G = Zeros2
    /\ (Iter = 1 /\ InSCF /\ pc # "fock") => F = H
    /\ Energy # 0 => Iter >= 2

C11_Witness ==
    /\ pc = "fprime" /\ Iter = 1
    /\ H # Zeros2 /\ V[<<0, 0, 0, 0>>] # 0
    /\ P = Zeros2 /\ G = Zeros2 /\ F = H /\ Energy = 0

(***************************************************************************)
(* The whole calculation: HFCALC(N, R, Zeta1, Zeta2, Z_H, Z_He).            *)
(***************************************************************************)

MaxN == 4
NValues == -1..MaxN
RValues == {1463200}
\* the integrals of three primitives with the exponent 2.0925 leave the grid
Zeta1Values(n) == IF n = 3 THEN {1240000} ELSE {1240000, 2092500}
Zeta2Values == {Scale, 1240000}
Z_HValues == {Scale, 2 * Scale}
Z_HeValues == {Scale, 2 * Scale}

Init ==
    /\ pc = "HFCALC"
    /\ N \in NValues /\ R \in RValues
    /\ Zeta1 \in Zeta1Values(N) /\ Zeta2 \in Zeta2Values
    /\ Z_H \in Z_HValues /\ Z_He \in Z_HeValues
    /\ InitBasisIdle /\ ints = Idle.ints /\ InitCollectIdle /\ InitSCFLocals
    /\ Fprime = Zeros2 /\ InitUnitIdle

Next == HFCALC_Call \/ AO_Integral \/ Collect \/ SCF
Spec == Init /\ [][Next]_vars

\* C1 (as claimed): for N outside {1, 2, 3} the calculation ends in an error before
\* any primitive integral is evaluated and before the SCF loop starts; it produces
\* no integrals, no matrices and no SCF trace.
C1_FailsFast ==
    N \notin 1..3 =>
        /\ pc \in {"HFCALC", "AO_contract", "error"}
        /\ Iter = 0 /\ reports = <<>>

\* C5 (as claimed): the exponents of atom 2 are the tabulated exponents times the
\* caller's Zeta2 squared, Exp_He1s[i] = Expont[N - 1, i] * Zeta2 ** 2 for i < N.
C5_HeExponents ==
    (N \in 1..3 /\ pc \notin {"HFCALC", "AO_contract"}) =>
        \A i \in 0..(N - 1) : Exp_He1s[i] = ScaledExponent(N, i, Zeta2)

(***************************************************************************)
(* erf on its own: the arguments 0, 1/16, 2/16, ...                        *)
(***************************************************************************)

MaxErf == 63
ErfInputs == {k * (Scale \div 16) : k \in 0..MaxErf}

InitErf ==
    /\ pc = "erf"
    /\ arg \in {[t |-> t] : t \in ErfInputs}
    /\ ret = Idle.ret
    /\ InitArgsIdle /\ InitBasisIdle /\ ints = Idle.ints /\ InitCollectIdle
    /\ InitSCFLocals /\ Fprime = Zeros2

Erf_Call ==
    /\ pc = "erf"
    /\ ret' = erf(arg.t)
    /\ pc' = "erf_return"
    /\ UNCHANGED <<argVars, basisVars, ints, collectVars, scfVars, arg>>

NextErf == Erf_Call
SpecErf == InitErf /\ [][NextErf]_vars

\* A[0] + A[1] + A[2] + A[3] + A[4], in units of 1 / Nano
ErfASum == ErfA[1] + ErfA[2] + ErfA[3] + ErfA[4] + ErfA[5]

\* C4 (as claimed): erf(0) returns exactly 0.
C4_ErfZeroExact == (pc = "erf_return" /\ arg.t = 0) => ret = 0

\* C4 (amended): erf(0) returns 1 - (A[0] + A[1] + A[2] + A[3] + A[4]), which is
\* 1e-9 and not 0: the five tabulated coefficients add up to 0.999999999.
C4_ErfZero ==
    (pc = "erf_return" /\ arg.t = 0) =>
        /\ ret = Nano - ErfASum
        /\ ret = 1
        /\ ret # 0

C4_Witness == pc = "erf_return" /\ arg.t = 0 /\ ret = 1

(***************************************************************************)
(* OverLap_S_int on its own.                                               *)
(***************************************************************************)

MaxA == 5
ExponentValues == {k * (Scale \div 2) : k \in 1..MaxA}
DistanceValues == {0, Scale, 2 * Scale}

InitOverlap ==
    /\ pc = "OverLap_S_int"
    /\ arg \in {[Alpha |-> a, Beta |-> b, R2_ab |-> r] :
                   a \in ExponentValues, b \in ExponentValues, r \in DistanceValues}
    /\ ret = Idle.ret
    /\ InitArgsIdle /\ InitBasisIdle /\ ints = Idle.ints /\ InitCollectIdle
    /\ InitSCFLocals /\ Fprime = Zeros2

OverLap_Call ==
    /\ pc = "OverLap_S_int"
    /\ ret' = OverLap_S_int(arg.Alpha, arg.Beta, arg.R2_ab)
    /\ pc' = "OverLap_return"
    /\ UNCHANGED <<argVars, basisVars, ints, collectVars, scfVars, arg>>

NextOverlap == OverLap_Call
SpecOverlap == InitOverlap /\ [][NextOverlap]_vars

\* C8 (as claimed): OverLap_S_int returns (pi / (alpha + beta)) ^ 1.5 *
\* exp(-alpha * beta / (alpha + beta) * R2_ab); for alpha = beta and R2_ab = 0 it
\* returns (pi / (2 * alpha)) ^ 1.5.
C8_OverlapFormula ==
    pc = "OverLap_return" =>
        /\ Near(ret, OverLap_S_int_Textbook(arg.Alpha, arg.Beta, arg.R2_ab))
        /\ (arg.Alpha = arg.Beta /\ arg.R2_ab = 0) =>
              Near(ret, Pow15(Div(Pi, 2 * arg.Alpha)))

=============================================================================
